---- MODULE Spec2Model ----
(***************************************************************************)
(* Job lifecycle, resource admission, MSA cache and database upkeep of     *)
(* boltz-service.                                                          *)
(*                                                                         *)
(*   SpecTraining   TrainingService (services/training.py)                  *)
(*   SpecInference  InferenceService (services/inference.py)               *)
(*                  each handler running on a thread of the gRPC pool      *)
(*   SpecRM         ResourceManager / ResourceMonitor (utils/resources.py) *)
(*   SpecWait       the callers of acquire_device under the event loop's   *)
(*                  scheduling (no monitor sample published)               *)
(*   SpecMSA        MSAService._run_hhblits (services/msa.py) with the     *)
(*                  Redis index and the artifact files changing under it   *)
(*   SpecMSAIntact  the same requests with Redis up and no expiry/deletion *)
(*   SpecMSAInput   the same with valid and invalid sequences submitted    *)
(*   SpecMSAOptions the same with requests differing in search options     *)
(*   SpecMSALive    the same with handler threads scheduled fairly and     *)
(*                  no assumption that hhblits exits                       *)
(*   SpecGate       the requests while the BFD shards come and go          *)
(*   SpecData       DatabaseManager.check_database_health                  *)
(*                  (utils/db_manager.py, utils/database_config.py)        *)
(*   SpecEvict      DatabaseManager.cleanup_cache, nothing else deleting   *)
(*   SpecEvictRace  cleanup_cache with files deleted by another process    *)
(*   SpecTrainingStatus, SpecInferenceStatus                               *)
(*                  the two job services with a client polling the status  *)
(*   SpecMonitor    ResourceMonitor: start(), stop(), stats and the        *)
(*                  sampling loops (utils/resources.py)                    *)
(***************************************************************************)
EXTENDS Integers, Sequences, FiniteSets, TLC

\* ----------------------------------------------------------------- bounds
NTrain == 2
NInfer == 2
MaxJobId == 2
NCallers == 2
NDevices == 1
NMsa == 2
NSeqs == 2
MaxMsaJobId == 2
NOpts == 2
NFiles == 3
MaxFileSize == 2
MaxMtime == 2
MaxBudget == 3
MaxStarts == 2
MaxSamples == 2

\* ------------------------------------------------------- program constants
\* the utilization / memory threshold of acquire_device, in percent
UtilizationLimit == 90
\* timeout=5.0 of asyncio.wait_for in acquire_device, in seconds
AcquireTimeout == 5
\* the 0.0 appended for a device whose query raised
GpuErrorValue == 0

JobIds == 1..MaxJobId
TReqs == 1..NTrain
IReqs == 1..NInfer

\* Python's None for a reference held in a dict / attribute.
None == 0

VARIABLES
    \* TrainingService
    tjobs,          \* self.jobs: job id -> the TrainingJob object stored (by request), or None
    tobj,           \* the TrainingJob object each StartTraining request constructs
    tpc,            \* position of each StartTraining request and of its worker
    treq,           \* request.job_id of each StartTraining request
    tresp,          \* gRPC outcome of each StartTraining request
    texc,           \* whether the worker's future holds an exception
    tcbjob,         \* local `job` of _handle_training_complete, per worker
    current_job,    \* self.current_job
    tSeenCompleted, \* history: ids whose stored TrainingJob has shown "completed"
    \* InferenceService
    ijobs,          \* self.jobs: job id -> the PredictionJob object stored, or None
    iobj,           \* the PredictionJob object each PredictStructure request constructs
    ipc,            \* position of each PredictStructure request
    ireq,           \* request.job_id of each PredictStructure request
    iresp,          \* response status of each PredictStructure request
    \* both
    cancelResp,     \* the response CancelJob gave in the step just taken, if any
    squery,         \* the status request in progress: the job object its lookup returned
    statusResp,     \* the response a status request was given in the step just taken, if any
    \* ResourceManager and its ResourceMonitor
    cfgType,        \* config.type
    cuda,           \* torch.cuda.is_available()
    device_ids,     \* config.device_ids
    locked,         \* _device_locks[d]._locked, for the devices that have a lock
    waiters,        \* _device_locks[d]._waiters: the callers whose future is queued
    stats,          \* monitor._stats: None or the last ResourceStats
    elapsed,        \* whether any time has passed since the manager was constructed
    cpc,            \* position of each caller of acquire_device
    cdev,           \* device_id of each caller's call in progress or hold
    lastCall,       \* the answer acquire_device gave in the step just taken, if any
    remaining,      \* seconds left of each caller's wait_for timeout
    queued,         \* the callers whose Lock.acquire went through the waiters
    \* ResourceMonitor: its sampling loops, start() and stop()
    stop_event,     \* monitor._stop_event.is_set()
    monitor_thread, \* monitor._monitor_thread: the loop the last start() made, None while unset
    loops,          \* the threads running _monitor: position, sample in hand, error seen
    samples,        \* history: the samples taken, in the order they were taken
    published,      \* history: which of `samples` monitor._stats holds, 0 for None
    stopc,          \* position of the call of stop() and the thread it joins
    lastRead,       \* what the last read of monitor.stats returned
    \* MSAService, its cache index (redis) and its artifact files
    redisHost,      \* whether REDIS_HOST is set
    skip_bfd,       \* whether SKIP_BFD_CHECK is "true"
    redisUp,        \* whether the redis server answers (else ConnectionError)
    index,          \* the keys msa:<sequence> of redis: sequence -> path or None
    artifact,       \* the file at each output path: absent, partial or a complete MSA
    mpc,            \* position of each GenerateMSA request
    mjob,           \* request.job_id of each GenerateMSA request
    mseq,           \* request.sequence of each GenerateMSA request
    mcache,         \* local `cache` of _run_hhblits: whether it is a RedisCache (not None)
    mcached,        \* local `cached_path` of _run_hhblits
    mresp,          \* the MSAResponse of each request: status and the exception reported
    mran,           \* history: whether the request spawned hhblits
    mwarm,          \* history: whether the index held the sequence when the request came in
    mtext,          \* the characters of request.sequence: its length and the characters in it
    mopt,           \* request.max_seqs, min_identity, num_iterations of each request
    outdirs,        \* the job ids whose output directory cache_dir/msa/<job_id> exists
    artopt,         \* history: the options of the hhblits run that wrote the file at each path
    \* the BFD dataset and DatabaseManager.check_database_health
    bfdDir,         \* whether BOLTZ_BFD_PATH is set and the directory exists
    shards,         \* the required files that exist in the directory
    dpc,            \* position of the call of check_database_health
    dcfg,           \* local `config.bfd`: whether it is a BFDConfig (not None)
    derrors,        \* the list the last call returned, as the set of shards it names
    \* the cache directory and DatabaseManager.cleanup_cache
    disk,           \* the files under cache_dir: size and mtime, or absent
    epc,            \* position of the call of cleanup_cache
    toScan,         \* the paths rglob has still to yield
    cur,            \* the path whose is_file() was true and whose stat() comes next
    files,          \* local `files`: <<path, size, mtime>> of the files scanned
    total_size,     \* local `total_size`
    max_size,       \* argument `max_size`
    removed         \* history: the paths the call unlinked, in order

tvars == <<tjobs, tobj, tpc, treq, tresp, texc, tcbjob, current_job, tSeenCompleted>>
ivars == <<ijobs, iobj, ipc, ireq, iresp>>
qvars == <<squery, statusResp>>
jvars == <<tvars, ivars, cancelResp, qvars>>
mvars == <<redisHost, skip_bfd, redisUp, index, artifact, mpc, mjob, mseq, mcache, mcached, mresp, mran, mwarm,
          mtext, mopt, outdirs, artopt>>
dvars == <<bfdDir, shards, dpc, dcfg, derrors>>
evars == <<disk, epc, toScan, cur, files, total_size, max_size, removed>>
xvars == <<mvars, dvars, evars>>
lvars == <<stop_event, monitor_thread, loops, samples, published, stopc, lastRead>>
rvars == <<cfgType, cuda, device_ids, locked, waiters, stats, elapsed, cpc, cdev, lastCall, remaining, queued, lvars>>

\* ------------------------------------------------------------ job records
\* TrainingJob / PredictionJob, reduced to the fields of the job record:
\* id, status, result reference (checkpoint_path / result_path), error_message.
NoJob == [job_id |-> None, status |-> "absent", result |-> "None", error |-> "None"]

NewJob(j) == [job_id |-> j, status |-> "pending", result |-> "None", error |-> "None"]

Terminal == {"completed", "failed", "cancelled"}

\* The record stored under id j in a job dict, NoJob when the id is absent.
Stored(jobs, obj, j) == IF jobs[j] = None THEN NoJob ELSE obj[jobs[j]]

TStored(j) == Stored(tjobs, tobj, j)

IStored(j) == Stored(ijobs, iobj, j)

\* the step answered no CancelJob request
NoCancel == [svc |-> "none", id |-> None, code |-> "none"]

\* no status request is between its lookup and its response
NoQuery == [svc |-> "none", id |-> None, obj |-> None]

\* the step answered no status request
NoStatus == [svc |-> "none", id |-> None, code |-> "none",
             status |-> "absent", result |-> "None", error |-> "None"]

SeenCompletedNext == tSeenCompleted' =
    tSeenCompleted \cup {j \in JobIds : Stored(tjobs', tobj', j).status = "completed"}

\* ------------------------------------------------------- TrainingService
\* StartTraining up to the construction of the TrainingJob: the membership
\* test of line 90 and, on a hit, the ALREADY_EXISTS response.
StartTrainingCheck(r, j) ==
    /\ tpc[r] = "idle"
    /\ treq' = [treq EXCEPT ![r] = j]
    /\ IF tjobs[j] # None
       THEN /\ tpc' = [tpc EXCEPT ![r] = "rejected"]
            /\ tresp' = [tresp EXCEPT ![r] = "ALREADY_EXISTS"]
            /\ tobj' = tobj
       ELSE /\ tpc' = [tpc EXCEPT ![r] = "created"]
            /\ tobj' = [tobj EXCEPT ![r] = NewJob(j)]
            /\ tresp' = tresp
    /\ cancelResp' = NoCancel
    /\ statusResp' = NoStatus
    /\ UNCHANGED <<xvars, rvars, squery, tjobs, texc, current_job, tcbjob, ivars>>
    /\ SeenCompletedNext

\* self.jobs[job.job_id] = job, the worker is submitted, "started" is returned.
StartTrainingInsert(r) ==
    /\ tpc[r] = "created"
    /\ tjobs' = [tjobs EXCEPT ![treq[r]] = r]
    /\ tpc' = [tpc EXCEPT ![r] = "queued"]
    /\ tresp' = [tresp EXCEPT ![r] = "started"]
    /\ cancelResp' = NoCancel
    /\ statusResp' = NoStatus
    /\ UNCHANGED <<xvars, rvars, squery, tobj, treq, texc, current_job, tcbjob, ivars>>
    /\ SeenCompletedNext

\* _train, line 296: self.current_job = job.job_id
TrainSetCurrent(r) ==
    /\ tpc[r] = "queued"
    /\ current_job' = treq[r]
    /\ tpc' = [tpc EXCEPT ![r] = "t297"]
    /\ cancelResp' = NoCancel
    /\ statusResp' = NoStatus
    /\ UNCHANGED <<xvars, rvars, squery, tjobs, tobj, treq, tresp, texc, tcbjob, ivars>>
    /\ SeenCompletedNext

\* _train, line 297: job.status = "running"
TrainSetRunning(r) ==
    /\ tpc[r] = "t297"
    /\ tobj' = [tobj EXCEPT ![r].status = "running"]
    /\ tpc' = [tpc EXCEPT ![r] = "fit"]
    /\ cancelResp' = NoCancel
    /\ statusResp' = NoStatus
    /\ UNCHANGED <<xvars, rvars, squery, tjobs, treq, tresp, texc, current_job, tcbjob, ivars>>
    /\ SeenCompletedNext

\* trainer.fit returned; line 328: job.status = "completed"
TrainSetCompleted(r) ==
    /\ tpc[r] = "fit"
    /\ tobj' = [tobj EXCEPT ![r].status = "completed"]
    /\ tpc' = [tpc EXCEPT ![r] = "t329"]
    /\ cancelResp' = NoCancel
    /\ statusResp' = NoStatus
    /\ UNCHANGED <<xvars, rvars, squery, tjobs, treq, tresp, texc, current_job, tcbjob, ivars>>
    /\ SeenCompletedNext

\* line 329: job.checkpoint_path = best_model_path
TrainSetCheckpoint(r) ==
    /\ tpc[r] = "t329"
    /\ tobj' = [tobj EXCEPT ![r].result = "path"]
    /\ tpc' = [tpc EXCEPT ![r] = "fin"]
    /\ cancelResp' = NoCancel
    /\ statusResp' = NoStatus
    /\ UNCHANGED <<xvars, rvars, squery, tjobs, treq, tresp, texc, current_job, tcbjob, ivars>>
    /\ SeenCompletedNext

\* an exception inside the try block (lines 299-325); line 333: job.status = "failed"
TrainSetFailed(r) ==
    /\ tpc[r] = "fit"
    /\ tobj' = [tobj EXCEPT ![r].status = "failed"]
    /\ texc' = [texc EXCEPT ![r] = TRUE]
    /\ tpc' = [tpc EXCEPT ![r] = "t334"]
    /\ cancelResp' = NoCancel
    /\ statusResp' = NoStatus
    /\ UNCHANGED <<xvars, rvars, squery, tjobs, treq, tresp, current_job, tcbjob, ivars>>
    /\ SeenCompletedNext

\* line 334: job.error_message = str(e); the exception is re-raised
TrainSetError(r) ==
    /\ tpc[r] = "t334"
    /\ tobj' = [tobj EXCEPT ![r].error = "err"]
    /\ tpc' = [tpc EXCEPT ![r] = "fin"]
    /\ cancelResp' = NoCancel
    /\ statusResp' = NoStatus
    /\ UNCHANGED <<xvars, rvars, squery, tjobs, treq, tresp, texc, current_job, tcbjob, ivars>>
    /\ SeenCompletedNext

\* where the worker goes once the finally block is over: the done callback
\* runs its except branch only when the future holds an exception
AfterFinally(r) == IF texc[r] THEN "callback" ELSE "done"

\* finally, line 339: if self.current_job == job.job_id
TrainFinallyCheck(r) ==
    /\ tpc[r] = "fin"
    /\ tpc' = [tpc EXCEPT ![r] =
                 IF current_job = treq[r] THEN "fin_clear" ELSE AfterFinally(r)]
    /\ cancelResp' = NoCancel
    /\ statusResp' = NoStatus
    /\ UNCHANGED <<xvars, rvars, squery, tjobs, tobj, treq, tresp, texc, current_job, tcbjob, ivars>>
    /\ SeenCompletedNext

\* finally, line 340: self.current_job = None
TrainFinallyClear(r) ==
    /\ tpc[r] = "fin_clear"
    /\ current_job' = None
    /\ tpc' = [tpc EXCEPT ![r] = AfterFinally(r)]
    /\ cancelResp' = NoCancel
    /\ statusResp' = NoStatus
    /\ UNCHANGED <<xvars, rvars, squery, tjobs, tobj, treq, tresp, texc, tcbjob, ivars>>
    /\ SeenCompletedNext

\* _handle_training_complete, lines 387-389: job = self.jobs.get(job_id) reads
\* the job now stored under the id, which gets status "failed"
HandleTrainingComplete(r) ==
    /\ tpc[r] = "callback"
    /\ tcbjob' = [tcbjob EXCEPT ![r] = tjobs[treq[r]]]
    /\ tobj' = [tobj EXCEPT ![tjobs[treq[r]]].status = "failed"]
    /\ tpc' = [tpc EXCEPT ![r] = "cb390"]
    /\ cancelResp' = NoCancel
    /\ statusResp' = NoStatus
    /\ UNCHANGED <<xvars, rvars, squery, tjobs, treq, tresp, texc, current_job, ivars>>
    /\ SeenCompletedNext

\* _handle_training_complete, line 390: job.error_message = str(e)
HandleTrainingError(r) ==
    /\ tpc[r] = "cb390"
    /\ tobj' = [tobj EXCEPT ![tcbjob[r]].error = "err"]
    /\ tpc' = [tpc EXCEPT ![r] = "done"]
    /\ cancelResp' = NoCancel
    /\ statusResp' = NoStatus
    /\ UNCHANGED <<xvars, rvars, squery, tjobs, treq, tresp, texc, tcbjob, current_job, ivars>>
    /\ SeenCompletedNext

\* TrainingService.CancelJob
TCancelJob(j) ==
    /\ IF current_job = None \/ j # current_job
       THEN /\ cancelResp' = [svc |-> "training", id |-> j, code |-> "FAILED_PRECONDITION"]
            /\ tobj' = tobj
       ELSE /\ tobj' = [tobj EXCEPT ![tjobs[j]].status = "cancelled"]
            /\ cancelResp' = [svc |-> "training", id |-> j, code |-> "cancelled"]
    /\ statusResp' = NoStatus
    /\ UNCHANGED <<xvars, rvars, squery, tjobs, tpc, treq, tresp, texc, current_job, tcbjob, ivars>>
    /\ SeenCompletedNext

\* ------------------------------------------------------ InferenceService
\* PredictStructure, lines 94-107: the job is built and stored; no membership test
PredictInsert(r, j) ==
    /\ ipc[r] = "idle"
    /\ ireq' = [ireq EXCEPT ![r] = j]
    /\ iobj' = [iobj EXCEPT ![r] = NewJob(j)]
    /\ ijobs' = [ijobs EXCEPT ![j] = r]
    /\ ipc' = [ipc EXCEPT ![r] = "predicting"]
    /\ cancelResp' = NoCancel
    /\ statusResp' = NoStatus
    /\ UNCHANGED <<xvars, rvars, squery, iresp, tvars>>

\* _run_prediction returned; line 113: job.status = "completed"
PredictSetCompleted(r) ==
    /\ ipc[r] = "predicting"
    /\ iobj' = [iobj EXCEPT ![r].status = "completed"]
    /\ ipc' = [ipc EXCEPT ![r] = "i114"]
    /\ cancelResp' = NoCancel
    /\ statusResp' = NoStatus
    /\ UNCHANGED <<xvars, rvars, squery, ijobs, ireq, iresp, tvars>>

\* line 114: job.result_path = result_path; the response carries job.status
PredictSetResult(r) ==
    /\ ipc[r] = "i114"
    /\ iobj' = [iobj EXCEPT ![r].result = "path"]
    /\ iresp' = [iresp EXCEPT ![r] = iobj[r].status]
    /\ ipc' = [ipc EXCEPT ![r] = "returned"]
    /\ cancelResp' = NoCancel
    /\ statusResp' = NoStatus
    /\ UNCHANGED <<xvars, rvars, squery, ijobs, ireq, tvars>>

\* _run_prediction raised; lines 123-129: a "failed" response, the job untouched
PredictFail(r) ==
    /\ ipc[r] = "predicting"
    /\ iresp' = [iresp EXCEPT ![r] = "failed"]
    /\ ipc' = [ipc EXCEPT ![r] = "returned"]
    /\ cancelResp' = NoCancel
    /\ statusResp' = NoStatus
    /\ UNCHANGED <<xvars, rvars, squery, ijobs, iobj, ireq, tvars>>

\* InferenceService.CancelJob
ICancelJob(j) ==
    /\ IF ijobs[j] = None
       THEN /\ cancelResp' = [svc |-> "inference", id |-> j, code |-> "NOT_FOUND"]
            /\ iobj' = iobj
       ELSE /\ iobj' = [iobj EXCEPT ![ijobs[j]].status = "cancelled"]
            /\ cancelResp' = [svc |-> "inference", id |-> j, code |-> "cancelled"]
    /\ statusResp' = NoStatus
    /\ UNCHANGED <<xvars, rvars, squery, ijobs, ipc, ireq, iresp, tvars>>

\* ------------------------------------------- GetJobStatus, GetTrainingStatus
\* the response with code NOT_FOUND: an empty message
NotFound(svc, j) == [svc |-> svc, id |-> j, code |-> "NOT_FOUND",
                     status |-> "absent", result |-> "None", error |-> "None"]

\* the response built from the fields of the job object
StatusOf(svc, j, job) == [svc |-> svc, id |-> j, code |-> "OK",
                          status |-> job.status, result |-> job.result, error |-> job.error]

JobAlwaysFound(jobs, j) == TRUE

\* `job = self.jobs.get(request.job_id)` followed by `if not job`: whether the
\* lookup found a job
JobFound(jobs, j) == jobs[j] # None

\* the job object a reference names
Deref(obj, o) == IF o = None THEN NoJob ELSE obj[o]

\* InferenceService.GetJobStatus, lines 138-142: the lookup and, for an
\* unknown id, the NOT_FOUND response
GetJobStatus(j) ==
    /\ squery = NoQuery
    /\ IF JobFound(ijobs, j)
       THEN /\ squery' = [svc |-> "inference", id |-> j, obj |-> ijobs[j]]
            /\ statusResp' = NoStatus
       ELSE /\ statusResp' = NotFound("inference", j)
            /\ squery' = squery
    /\ cancelResp' = NoCancel
    /\ UNCHANGED <<xvars, rvars, tvars, ivars>>

\* InferenceService.GetJobStatus, lines 144-150: the response is built from
\* job.status, job.result_path and job.error_message
GetJobStatusRespond ==
    /\ squery.svc = "inference"
    /\ statusResp' = StatusOf("inference", squery.id, Deref(iobj, squery.obj))
    /\ squery' = NoQuery
    /\ cancelResp' = NoCancel
    /\ UNCHANGED <<xvars, rvars, tvars, ivars>>

\* TrainingService.GetTrainingStatus, lines 142-146: the lookup and, for an
\* unknown id, the NOT_FOUND response
GetTrainingStatus(j) ==
    /\ squery = NoQuery
    /\ IF JobFound(tjobs, j)
       THEN /\ squery' = [svc |-> "training", id |-> j, obj |-> tjobs[j]]
            /\ statusResp' = NoStatus
       ELSE /\ statusResp' = NotFound("training", j)
            /\ squery' = squery
    /\ cancelResp' = NoCancel
    /\ UNCHANGED <<xvars, rvars, tvars, ivars>>

\* TrainingService.GetTrainingStatus, lines 148-161: the response is built
\* from job.status, job.checkpoint_path and job.error_message
GetTrainingStatusRespond ==
    /\ squery.svc = "training"
    /\ statusResp' = StatusOf("training", squery.id, Deref(tobj, squery.obj))
    /\ squery' = NoQuery
    /\ cancelResp' = NoCancel
    /\ UNCHANGED <<xvars, rvars, tvars, ivars>>

\* what a call of acquire_device answered: True ("ok") or the
\* ResourceExhaustedError raised
Answer(c, d, outcome) == [caller |-> c, device |-> d, outcome |-> outcome]

\* the step answered no call
NoCall == Answer(0, 0, "none")

\* ------------------------------------------------ ResourceMonitor, stats
Callers == 1..NCallers

\* the devices torch.cuda reports, range(torch.cuda.device_count())
DeviceIds == 0..(NDevices - 1)

\* the device ids a caller may pass: the devices and one id beyond them
RequestIds == 0..NDevices

\* percentages on both sides of the threshold
Percents == {UtilizationLimit, UtilizationLimit + 1}

\* gpu_utils / gpu_memory_utils of one sample: one entry per device when cuda
\* is available (entry d + 1 is device d), None (the empty list here) otherwise
GpuSamples == IF cuda THEN [1..NDevices -> Percents] ELSE {<<>>}

\* the ResourceStats one sample can publish
StatsValues ==
    [memory_percent : Percents,
     gpu_utilization : GpuSamples,
     gpu_memory_utilization : GpuSamples]

\* monitor._stats is None until the first sample; <<>> stands for None and
\* <<s>> for the ResourceStats s
NoStats == <<>>

\* one iteration of _monitor that publishes a sample; psutil.cpu_percent(interval=1)
\* blocks for a second first
MonitorSample(s) ==
    /\ elapsed
    /\ stats' = <<s>>
    /\ lastCall' = NoCall
    /\ UNCHANGED <<xvars, jvars, lvars, cfgType, cuda, device_ids, locked, waiters, elapsed,
                   cpc, cdev, remaining, queued>>

\* ------------------------------------- ResourceMonitor: start, stop, _monitor
\* the threads start() can make, one per call
Loops == 1..MaxStarts

\* a thread start() has not made yet
NoLoop == [pc |-> "unstarted", seq |-> 0, err |-> FALSE]

\* the loops that are running: started and not yet returned from _monitor
Running == {t \in Loops : loops[t].pc \notin {"unstarted", "exited"}}

\* start(), lines 80-81: a new Thread is made, stored in _monitor_thread and
\* started; nothing is tested before
Start ==
    /\ \E t \in Loops :
          /\ loops[t].pc = "unstarted"
          /\ \A u \in Loops : u < t => loops[u].pc # "unstarted"
          /\ loops' = [loops EXCEPT ![t].pc = "top"]
          /\ monitor_thread' = t
    /\ UNCHANGED <<stop_event, samples, published, stopc, lastRead>>
    /\ UNCHANGED <<xvars, jvars, cfgType, cuda, device_ids, locked, waiters, stats, elapsed,
                   cpc, cdev, lastCall, remaining, queued>>

\* line 47: while not self._stop_event.is_set()
LoopTest(t) ==
    /\ loops[t].pc = "top"
    /\ loops' = [loops EXCEPT ![t].pc = IF stop_event THEN "exited" ELSE "sampling"]
    /\ UNCHANGED <<stop_event, monitor_thread, samples, published, stopc, lastRead>>
    /\ UNCHANGED <<xvars, jvars, cfgType, cuda, device_ids, locked, waiters, stats, elapsed,
                   cpc, cdev, lastCall, remaining, queued>>

\* what the queries of one device can do (lines 60-65): both succeed, the
\* utilization query raises, or the memory query raises after the utilization
\* was appended
GpuOutcomes ==
    [kind : {"ok"}, util : Percents, mem : Percents]
        \cup [kind : {"util_error"}, util : {GpuErrorValue}, mem : {GpuErrorValue}]
        \cup [kind : {"mem_error"}, util : Percents, mem : {GpuErrorValue}]

\* gpu_utils as the loop of lines 58-65 builds it: the except branch appends
\* 0.0 to both lists, after the utilization of the device if it was appended
RECURSIVE GpuUtils(_)
GpuUtils(os) ==
    IF os = <<>> THEN <<>>
    ELSE (IF os[1].kind = "mem_error" THEN <<os[1].util, GpuErrorValue>> ELSE <<os[1].util>>)
             \o GpuUtils(Tail(os))

\* gpu_memory_utils as the loop of lines 58-65 builds it
RECURSIVE GpuMemoryUtils(_)
GpuMemoryUtils(os) ==
    IF os = <<>> THEN <<>> ELSE <<os[1].mem>> \o GpuMemoryUtils(Tail(os))

\* the per-device outcomes of one iteration: one per device when cuda is
\* available, none otherwise (gpu_utils stays None)
DeviceOutcomes == IF cuda THEN [1..NDevices -> GpuOutcomes] ELSE {<<>>}

\* the ResourceStats of lines 68-73
SampleOf(mem, os) ==
    [memory_percent |-> mem,
     gpu_utilization |-> GpuUtils(os),
     gpu_memory_utilization |-> GpuMemoryUtils(os)]

\* whether a device query raised while the sample was taken
QueryFailed(os) == \E i \in DOMAIN os : os[i].kind # "ok"

\* lines 49-65: the sample is taken; cpu_percent(interval=1) blocks for a
\* second first
LoopSample(t, mem, os) ==
    /\ loops[t].pc = "sampling"
    /\ elapsed
    /\ Len(samples) < MaxSamples
    /\ samples' = Append(samples, SampleOf(mem, os))
    /\ loops' = [loops EXCEPT ![t] = [pc |-> "publish", seq |-> Len(samples) + 1,
                                      err |-> QueryFailed(os)]]
    /\ UNCHANGED <<stop_event, monitor_thread, published, stopc, lastRead>>
    /\ UNCHANGED <<xvars, jvars, cfgType, cuda, device_ids, locked, waiters, stats, elapsed,
                   cpc, cdev, lastCall, remaining, queued>>

\* lines 75-76: psutil raised; the error is logged and the iteration goes on
\* to the wait
LoopSampleError(t) ==
    /\ loops[t].pc = "sampling"
    /\ loops' = [loops EXCEPT ![t] = [pc |-> "wait", seq |-> 0, err |-> TRUE]]
    /\ UNCHANGED <<stop_event, monitor_thread, samples, published, stopc, lastRead>>
    /\ UNCHANGED <<xvars, jvars, cfgType, cuda, device_ids, locked, waiters, stats, elapsed,
                   cpc, cdev, lastCall, remaining, queued>>

\* lines 67-73: with self._lock: self._stats = ResourceStats(...)
LoopPublish(t) ==
    /\ loops[t].pc = "publish"
    /\ stats' = <<samples[loops[t].seq]>>
    /\ published' = loops[t].seq
    /\ loops' = [loops EXCEPT ![t].pc = "wait"]
    /\ UNCHANGED <<stop_event, monitor_thread, samples, stopc, lastRead>>
    /\ UNCHANGED <<xvars, jvars, cfgType, cuda, device_ids, locked, waiters, elapsed,
                   cpc, cdev, lastCall, remaining, queued>>

\* line 78: self._stop_event.wait(self.interval) returns, the event set or
\* the interval over
LoopWake(t) ==
    /\ loops[t].pc = "wait"
    /\ loops' = [loops EXCEPT ![t] = [pc |-> "top", seq |-> 0, err |-> FALSE]]
    /\ UNCHANGED <<stop_event, monitor_thread, samples, published, stopc, lastRead>>
    /\ UNCHANGED <<xvars, jvars, cfgType, cuda, device_ids, locked, waiters, stats, elapsed,
                   cpc, cdev, lastCall, remaining, queued>>

\* no call of stop() is in progress or was made
NoStop == [pc |-> "idle", thread |-> None]

\* stop(), line 85: self._stop_event.set()
StopSet ==
    /\ stopc.pc \in {"idle", "returned", "raised"}
    /\ stop_event' = TRUE
    /\ stopc' = [pc |-> "set", thread |-> None]
    /\ UNCHANGED <<monitor_thread, loops, samples, published, lastRead>>
    /\ UNCHANGED <<xvars, jvars, cfgType, cuda, device_ids, locked, waiters, stats, elapsed,
                   cpc, cdev, lastCall, remaining, queued>>

\* stop(), line 86: self._monitor_thread is read, AttributeError when start()
\* never set it; join() is called on the thread it names
StopJoin ==
    /\ stopc.pc = "set"
    /\ stopc' = IF monitor_thread = None
                THEN [pc |-> "raised", thread |-> None]
                ELSE [pc |-> "joining", thread |-> monitor_thread]
    /\ UNCHANGED <<stop_event, monitor_thread, loops, samples, published, lastRead>>
    /\ UNCHANGED <<xvars, jvars, cfgType, cuda, device_ids, locked, waiters, stats, elapsed,
                   cpc, cdev, lastCall, remaining, queued>>

\* stop(), line 86: join() returns once the thread it was called on has ended
StopReturn ==
    /\ stopc.pc = "joining"
    /\ loops[stopc.thread].pc = "exited"
    /\ stopc' = [stopc EXCEPT !.pc = "returned"]
    /\ UNCHANGED <<stop_event, monitor_thread, loops, samples, published, lastRead>>
    /\ UNCHANGED <<xvars, jvars, cfgType, cuda, device_ids, locked, waiters, stats, elapsed,
                   cpc, cdev, lastCall, remaining, queued>>

\* nothing has been read from monitor.stats yet
NoRead == [seq |-> 0, stats |-> NoStats]

\* the property stats, lines 88-92: with self._lock: return self._stats
ReadStats ==
    /\ lastRead' = [seq |-> published, stats |-> stats]
    /\ UNCHANGED <<stop_event, monitor_thread, loops, samples, published, stopc>>
    /\ UNCHANGED <<xvars, jvars, cfgType, cuda, device_ids, locked, waiters, stats, elapsed,
                   cpc, cdev, lastCall, remaining, queued>>

\* ------------------------------------------------------- ResourceManager
\* the keys of _device_locks after __init__ (lines 109-117)
DeviceLocks == IF cfgType = "gpu" /\ cuda THEN device_ids ELSE {}

\* the test of line 137 answering that every device id has a lock
KnownAlways(d) == TRUE

\* line 137: device_id in self._device_locks
KnownDevice(d) == d \in DeviceLocks

\* lines 142-145 with the field mixed up: reads gpu_memory_utilization
OverloadedReadsMemory(d) ==
    /\ stats # NoStats
    /\ cfgType = "gpu"
    /\ stats[1].gpu_memory_utilization # <<>>
    /\ stats[1].gpu_memory_utilization[d + 1] > UtilizationLimit

\* lines 142-145: stats and config.type == "gpu" and stats.gpu_utilization
\* and stats.gpu_utilization[device_id] > 90
Overloaded(d) ==
    /\ stats # NoStats
    /\ cfgType = "gpu"
    /\ stats[1].gpu_utilization # <<>>
    /\ stats[1].gpu_utilization[d + 1] > UtilizationLimit

\* lines 142, 147: stats and stats.memory_percent > 90
MemoryExhausted ==
    /\ stats # NoStats
    /\ stats[1].memory_percent > UtilizationLimit

\* the fast path of Lock.acquire taken whatever the lock's state
CanLockAlways(d) == TRUE

\* asyncio.Lock.acquire, fast path: not self._locked and no waiter that is not
\* cancelled (a cancelled waiter is removed in the step that cancels it)
CanLock(d) == ~locked[d] /\ waiters[d] = <<>>

\* _wake_up_first that wakes nobody
WakeUpNobody(ws, pcs) == pcs

\* asyncio.Lock._wake_up_first on the waiters ws: the first waiter's future gets
\* its result unless it is done already
WakeUpFirst(ws, pcs) ==
    IF ws # <<>> /\ pcs[Head(ws)] = "waiting"
    THEN [pcs EXCEPT ![Head(ws)] = "woken"]
    ELSE pcs

Without(ws, c) == SelectSeq(ws, LAMBDA x : x # c)

\* acquire_device up to its await: the checks of lines 137-148, then
\* wait_for schedules Lock.acquire with a 5 second timeout
AcquireDevice(c, d) ==
    /\ cpc[c] = "idle"
    /\ IF ~KnownDevice(d)
       THEN /\ lastCall' = Answer(c, d, "not_available")
            /\ UNCHANGED <<cpc, cdev>>
       ELSE IF Overloaded(d)
       THEN /\ lastCall' = Answer(c, d, "overloaded")
            /\ UNCHANGED <<cpc, cdev>>
       ELSE IF MemoryExhausted
       THEN /\ lastCall' = Answer(c, d, "memory_exhausted")
            /\ UNCHANGED <<cpc, cdev>>
       ELSE /\ cpc' = [cpc EXCEPT ![c] = "acquiring"]
            /\ cdev' = [cdev EXCEPT ![c] = d]
            /\ lastCall' = NoCall
    /\ UNCHANGED <<xvars, jvars, lvars, cfgType, cuda, device_ids, locked, waiters, stats, elapsed,
                   remaining, queued>>

\* Lock.acquire up to its await: the lock is taken on the fast path, else the
\* caller's future is appended to the waiters
LockAcquire(c) ==
    /\ cpc[c] = "acquiring"
    /\ IF CanLock(cdev[c])
       THEN /\ locked' = [locked EXCEPT ![cdev[c]] = TRUE]
            /\ cpc' = [cpc EXCEPT ![c] = "holding"]
            /\ lastCall' = Answer(c, cdev[c], "ok")
            /\ UNCHANGED <<waiters, queued>>
       ELSE /\ waiters' = [waiters EXCEPT ![cdev[c]] = Append(@, c)]
            /\ cpc' = [cpc EXCEPT ![c] = "waiting"]
            /\ queued' = queued \cup {c}
            /\ lastCall' = NoCall
            /\ locked' = locked
    /\ UNCHANGED <<xvars, jvars, lvars, cfgType, cuda, device_ids, stats, elapsed, cdev, remaining>>

\* Lock.acquire resumed with its future's result: the future leaves the
\* waiters, the lock is taken, acquire_device returns True
LockResume(c) ==
    /\ cpc[c] = "woken"
    /\ waiters' = [waiters EXCEPT ![cdev[c]] = Without(@, c)]
    /\ locked' = [locked EXCEPT ![cdev[c]] = TRUE]
    /\ cpc' = [cpc EXCEPT ![c] = "holding"]
    /\ lastCall' = Answer(c, cdev[c], "ok")
    /\ remaining' = [remaining EXCEPT ![c] = AcquireTimeout]
    /\ UNCHANGED <<xvars, jvars, lvars, cfgType, cuda, device_ids, stats, elapsed, cdev, queued>>

\* wait_for's timeout expires: Lock.acquire is cancelled, its future leaves the
\* waiters, an unlocked lock wakes its next waiter, and acquire_device raises
\* ResourceExhaustedError("Timeout waiting for device")
AcquireTimesOut(c) ==
    /\ cpc[c] \in {"waiting", "woken"}
    /\ remaining[c] = 0
    /\ waiters' = [waiters EXCEPT ![cdev[c]] = Without(@, c)]
    /\ cpc' = IF locked[cdev[c]]
              THEN [cpc EXCEPT ![c] = "idle"]
              ELSE WakeUpFirst(Without(waiters[cdev[c]], c), [cpc EXCEPT ![c] = "idle"])
    /\ lastCall' = Answer(c, cdev[c], "timeout")
    /\ cdev' = [cdev EXCEPT ![c] = 0]
    /\ remaining' = [remaining EXCEPT ![c] = AcquireTimeout]
    /\ queued' = queued \ {c}
    /\ UNCHANGED <<xvars, jvars, lvars, cfgType, cuda, device_ids, locked, stats, elapsed>>

\* release_device by the caller that holds the device: Lock.release unlocks
\* and wakes the first waiter
ReleaseDevice(c) ==
    /\ cpc[c] = "holding"
    /\ IF cdev[c] \in DeviceLocks
       THEN /\ locked' = [locked EXCEPT ![cdev[c]] = FALSE]
            /\ cpc' = WakeUpFirst(waiters[cdev[c]], [cpc EXCEPT ![c] = "idle"])
       ELSE /\ locked' = locked
            /\ cpc' = [cpc EXCEPT ![c] = "idle"]
    /\ cdev' = [cdev EXCEPT ![c] = 0]
    /\ queued' = queued \ {c}
    /\ lastCall' = NoCall
    /\ UNCHANGED <<xvars, jvars, lvars, cfgType, cuda, device_ids, waiters, stats, elapsed, remaining>>

\* a second passes: possible once the event loop has run every task that is
\* ready and every timeout that is due
Tick ==
    /\ \A c \in Callers : cpc[c] \notin {"acquiring", "woken"}
    /\ \A c \in Callers : cpc[c] = "waiting" => remaining[c] > 0
    /\ ~elapsed \/ \E c \in Callers : cpc[c] = "waiting"
    /\ elapsed' = TRUE
    /\ remaining' = [c \in Callers |->
                       IF cpc[c] = "waiting" THEN remaining[c] - 1 ELSE remaining[c]]
    /\ lastCall' = NoCall
    /\ UNCHANGED <<xvars, jvars, lvars, cfgType, cuda, device_ids, locked, waiters, stats, cpc, cdev,
                   queued>>

\* ------------------------------------------------------------ MSAService
MReqs == 1..NMsa

Seqs == 1..NSeqs

MsaJobIds == 1..MaxMsaJobId

\* output_path of a request: cache_dir/msa/<job_id>/msa.a3m, named by its job id
OutputPath(j) == j

\* the file at a path
Absent == [state |-> "absent", seq |-> None]

\* hhblits has opened the file and not finished it, or has failed on it
Partial == [state |-> "partial", seq |-> None]

\* the finished alignment of sequence s
Complete(s) == [state |-> "complete", seq |-> s]

\* os.path.exists(p)
Exists(p) == artifact[p].state # "absent"

NoResponse == [status |-> "none", error |-> "None"]

Completed == [status |-> "completed", error |-> "None"]

\* except Exception as e: MSAResponse(status="failed", error_message=str(e))
Failed(e) == [status |-> "failed", error |-> e]

\* get_redis_cache, lines 102-116: None without REDIS_HOST, None when the ping
\* raises redis.ConnectionError, the RedisCache otherwise
GetRedisCache == redisHost /\ redisUp

\* len(sequence) > 2000 of validate_sequence (sequence.py:22)
SeqLenLimit == 2000

\* the characters a request.sequence is made of: an amino-acid letter of
\* "ACDEFGHIKLMNPQRSTVWY", the same in lower case, another letter
Chars == {"A", "a", "X"}

\* the lengths a request.sequence has: empty, short, at the limit, beyond it
Lens == {0, 1, SeqLenLimit, SeqLenLimit + 1}

\* request.sequence as a text: its length and the set of characters in it
Texts == {q \in [len : Lens, chars : SUBSET Chars] :
            /\ (q.len = 0) <=> (q.chars = {})
            /\ Cardinality(q.chars) <= q.len}

NoText == [len |-> 0, chars |-> {}]

\* a short sequence of amino-acid letters
PlainText == [len |-> 1, chars |-> {"A"}]

\* the option triples (max_seqs, min_identity, num_iterations) of a request
Opts == 1..NOpts

DefaultOptions == 1

\* str.upper() of one character
Upper(c) == IF c = "a" THEN "A" ELSE c

\* valid_chars = set("ACDEFGHIKLMNPQRSTVWY")
valid_chars == {"A"}

AcceptsAll(q) == TRUE

\* validate_sequence (sequence.py:4-29)
validate_sequence(q) ==
    IF q.len = 0 THEN FALSE
    ELSE IF q.len > SeqLenLimit THEN FALSE
    ELSE {Upper(c) : c \in q.chars} \subseteq valid_chars

\* context.set_code(INVALID_ARGUMENT), set_details("Invalid sequence") and the
\* empty MSAResponse (msa.py:157-159)
InvalidArgument == [status |-> "INVALID_ARGUMENT", error |-> "Invalid sequence"]

\* GenerateMSA up to the call of get_redis_cache in _run_hhblits: the sequence
\* is validated; then the output directory is made, the options are taken
\* from the request and the cache is looked for (msa.py:154-174, 87)
GenerateMSA(r, j, q, s, o) ==
    /\ mpc[r] = "idle"
    /\ mjob' = [mjob EXCEPT ![r] = j]
    /\ mtext' = [mtext EXCEPT ![r] = q]
    /\ mopt' = [mopt EXCEPT ![r] = o]
    /\ IF ~validate_sequence(q)
       THEN /\ mpc' = [mpc EXCEPT ![r] = "done"]
            /\ mresp' = [mresp EXCEPT ![r] = InvalidArgument]
            /\ UNCHANGED <<mseq, mcache, mwarm, outdirs>>
       ELSE /\ outdirs' = outdirs \cup {j}
            /\ mseq' = [mseq EXCEPT ![r] = s]
            /\ mcache' = [mcache EXCEPT ![r] = GetRedisCache]
            /\ mwarm' = [mwarm EXCEPT ![r] = index[s] # None]
            /\ mpc' = [mpc EXCEPT ![r] = "cache"]
            /\ UNCHANGED mresp
    /\ UNCHANGED <<redisHost, skip_bfd, redisUp, index, artifact, mcached, mran, artopt>>
    /\ UNCHANGED <<jvars, rvars, dvars, evars>>

\* GenerateMSA of a plain sequence s with the default options
MsaStart(r, j, s) == GenerateMSA(r, j, PlainText, s, DefaultOptions)

\* lines 88-90: cache.get_msa(sequence) and os.path.exists(cached_path); a
\* redis error raised by get_msa ends the request as failed
CacheLookup(r) ==
    /\ mpc[r] = "cache"
    /\ IF ~mcache[r]
       THEN /\ mpc' = [mpc EXCEPT ![r] = "gate"]
            /\ UNCHANGED <<mcached, mresp>>
       ELSE IF ~redisUp
       THEN /\ mpc' = [mpc EXCEPT ![r] = "done"]
            /\ mresp' = [mresp EXCEPT ![r] = Failed("ConnectionError")]
            /\ UNCHANGED mcached
       ELSE /\ mcached' = [mcached EXCEPT ![r] = index[mseq[r]]]
            /\ mpc' = [mpc EXCEPT ![r] =
                  IF index[mseq[r]] # None /\ Exists(index[mseq[r]])
                  THEN "copy" ELSE "gate"]
            /\ UNCHANGED mresp
    /\ UNCHANGED <<redisHost, skip_bfd, redisUp, index, artifact, mjob, mseq, mcache, mran, mwarm>>
    /\ UNCHANGED <<jvars, rvars, dvars, evars, mtext, mopt, outdirs, artopt>>

\* lines 91-93: shutil.copy(cached_path, output_path); it raises SameFileError
\* when both name one file and FileNotFoundError when the source is gone
CacheCopy(r) ==
    /\ mpc[r] = "copy"
    /\ mpc' = [mpc EXCEPT ![r] = "done"]
    /\ IF mcached[r] = OutputPath(mjob[r])
       THEN /\ mresp' = [mresp EXCEPT ![r] = Failed("SameFileError")]
            /\ UNCHANGED <<artifact, artopt>>
       ELSE IF ~Exists(mcached[r])
       THEN /\ mresp' = [mresp EXCEPT ![r] = Failed("FileNotFoundError")]
            /\ UNCHANGED <<artifact, artopt>>
       ELSE /\ artifact' = [artifact EXCEPT ![OutputPath(mjob[r])] = artifact[mcached[r]]]
            /\ artopt' = [artopt EXCEPT ![OutputPath(mjob[r])] = artopt[mcached[r]]]
            /\ mresp' = [mresp EXCEPT ![r] = Completed]
    /\ UNCHANGED <<redisHost, skip_bfd, redisUp, index, mjob, mseq, mcache, mcached, mran, mwarm>>
    /\ UNCHANGED <<jvars, rvars, dvars, evars, mtext, mopt, outdirs>>

\* lines 95-99: not skip_bfd and (not bfd_path or not os.path.exists(bfd_path))
\* raises ValueError; GatePasses is the negation
GatePasses == skip_bfd \/ bfdDir

\* lines 95-99, the gate before hhblits
MsaGate(r) ==
    /\ mpc[r] = "gate"
    /\ IF GatePasses
       THEN /\ mpc' = [mpc EXCEPT ![r] = "spawn"]
            /\ UNCHANGED mresp
       ELSE /\ mpc' = [mpc EXCEPT ![r] = "done"]
            /\ mresp' = [mresp EXCEPT ![r] = Failed("ValueError")]
    /\ UNCHANGED <<redisHost, skip_bfd, redisUp, index, artifact, mjob, mseq, mcache, mcached, mran, mwarm>>
    /\ UNCHANGED <<jvars, rvars, dvars, evars, mtext, mopt, outdirs, artopt>>

\* lines 101-138: the query file is written and hhblits is spawned; it
\* produces its alignment at output_path
ToolStart(r) ==
    /\ mpc[r] = "spawn"
    /\ mpc' = [mpc EXCEPT ![r] = "tool"]
    /\ mran' = [mran EXCEPT ![r] = TRUE]
    /\ artifact' = [artifact EXCEPT ![OutputPath(mjob[r])] = Partial]
    /\ artopt' = [artopt EXCEPT ![OutputPath(mjob[r])] = mopt[r]]
    /\ UNCHANGED <<redisHost, skip_bfd, redisUp, index, mjob, mseq, mcache, mcached, mresp, mwarm>>
    /\ UNCHANGED <<jvars, rvars, dvars, evars, mtext, mopt, outdirs>>

\* a tool step that maps the sequence to the output path whatever the returncode
ToolFinishCaches(r, ok) ==
    /\ mpc[r] = "tool"
    /\ mpc' = [mpc EXCEPT ![r] = IF ok THEN "set" ELSE "done"]
    /\ mresp' = [mresp EXCEPT ![r] = IF ok THEN mresp[r] ELSE Failed("RuntimeError")]
    /\ index' = [index EXCEPT ![mseq[r]] = OutputPath(mjob[r])]
    /\ artifact' = [artifact EXCEPT ![OutputPath(mjob[r])] =
                        IF ok THEN Complete(mseq[r]) ELSE artifact[OutputPath(mjob[r])]]
    /\ UNCHANGED <<redisHost, skip_bfd, redisUp, mjob, mseq, mcache, mcached, mran, mwarm>>
    /\ UNCHANGED <<jvars, rvars, dvars, evars, mtext, mopt, outdirs, artopt>>

\* lines 139-142: hhblits ends; returncode 0 leaves the finished alignment,
\* another returncode raises RuntimeError
ToolFinish(r, ok) ==
    /\ mpc[r] = "tool"
    /\ IF ok
       THEN /\ artifact' = [artifact EXCEPT ![OutputPath(mjob[r])] = Complete(mseq[r])]
            /\ mpc' = [mpc EXCEPT ![r] = "set"]
            /\ UNCHANGED mresp
       ELSE /\ mpc' = [mpc EXCEPT ![r] = "done"]
            /\ mresp' = [mresp EXCEPT ![r] = Failed("RuntimeError")]
            /\ UNCHANGED artifact
    /\ UNCHANGED <<redisHost, skip_bfd, redisUp, index, mjob, mseq, mcache, mcached, mran, mwarm>>
    /\ UNCHANGED <<jvars, rvars, dvars, evars, mtext, mopt, outdirs, artopt>>

\* lines 144-146 and 176-180: cache.set_msa(sequence, output_path), then the
\* completed response; a redis error raised by set_msa ends the request as failed
CacheSet(r) ==
    /\ mpc[r] = "set"
    /\ mpc' = [mpc EXCEPT ![r] = "done"]
    /\ IF ~mcache[r]
       THEN /\ mresp' = [mresp EXCEPT ![r] = Completed]
            /\ UNCHANGED index
       ELSE IF ~redisUp
       THEN /\ mresp' = [mresp EXCEPT ![r] = Failed("ConnectionError")]
            /\ UNCHANGED index
       ELSE /\ index' = [index EXCEPT ![mseq[r]] = OutputPath(mjob[r])]
            /\ mresp' = [mresp EXCEPT ![r] = Completed]
    /\ UNCHANGED <<redisHost, skip_bfd, redisUp, artifact, mjob, mseq, mcache, mcached, mran, mwarm>>
    /\ UNCHANGED <<jvars, rvars, dvars, evars, mtext, mopt, outdirs, artopt>>

\* the redis server goes away or comes back
RedisFlip ==
    /\ redisUp' = ~redisUp
    /\ UNCHANGED <<redisHost, skip_bfd, index, artifact, mpc, mjob, mseq, mcache, mcached, mresp, mran, mwarm>>
    /\ UNCHANGED <<jvars, rvars, dvars, evars, mtext, mopt, outdirs, artopt>>

\* a key msa:<sequence> expires (set_msa stores it with ex=86400)
IndexExpire(s) ==
    /\ index[s] # None
    /\ index' = [index EXCEPT ![s] = None]
    /\ UNCHANGED <<redisHost, skip_bfd, redisUp, artifact, mpc, mjob, mseq, mcache, mcached, mresp, mran, mwarm>>
    /\ UNCHANGED <<jvars, rvars, dvars, evars, mtext, mopt, outdirs, artopt>>

\* an artifact file is deleted by something else than the request that wrote
\* it (cleanup_cache works on the same directory)
ArtifactDeleted(p) ==
    /\ Exists(p)
    /\ artifact' = [artifact EXCEPT ![p] = Absent]
    /\ artopt' = [artopt EXCEPT ![p] = None]
    /\ UNCHANGED <<redisHost, skip_bfd, redisUp, index, mpc, mjob, mseq, mcache, mcached, mresp, mran, mwarm>>
    /\ UNCHANGED <<jvars, rvars, dvars, evars, mtext, mopt, outdirs>>

\* ------------------------------------------ BFD dataset, DatabaseManager
\* required_files of BFDConfig.from_env (database_config.py:47-54)
ShardNames == {"ffindex", "ffdata", "cs219_index", "cs219_data", "hhm_index", "hhm_data"}

\* the required files that do not exist
MissingShards == IF bfdDir THEN ShardNames \ shards ELSE ShardNames

\* BFDConfig.from_env: None unless BOLTZ_BFD_PATH is set, the directory
\* exists and every required file exists in it
BFDFromEnv == bfdDir /\ shards = ShardNames

\* a required file is removed
RemoveShard(sh) ==
    /\ bfdDir /\ sh \in shards
    /\ shards' = shards \ {sh}
    /\ UNCHANGED <<bfdDir, dpc, dcfg, derrors>>
    /\ UNCHANGED <<jvars, rvars, mvars, evars>>

\* a required file is put back
RestoreShard(sh) ==
    /\ bfdDir /\ sh \notin shards
    /\ shards' = shards \cup {sh}
    /\ UNCHANGED <<bfdDir, dpc, dcfg, derrors>>
    /\ UNCHANGED <<jvars, rvars, mvars, evars>>

\* the dataset directory is removed with its files, or made anew and empty
BfdDirFlip ==
    /\ bfdDir' = ~bfdDir
    /\ shards' = {}
    /\ UNCHANGED <<dpc, dcfg, derrors>>
    /\ UNCHANGED <<jvars, rvars, mvars, evars>>

\* check_database_health, lines 143-144: config = DatabaseConfig.from_env()
CheckLoad ==
    /\ dpc = "idle"
    /\ dpc' = "loaded"
    /\ dcfg' = BFDFromEnv
    /\ UNCHANGED <<bfdDir, shards, derrors>>
    /\ UNCHANGED <<jvars, rvars, mvars, evars>>

\* check_database_health, lines 147-160: with a BFDConfig, one error per path
\* of it that does not exist; the list is returned
CheckReport ==
    /\ dpc = "loaded"
    /\ dpc' = "idle"
    /\ derrors' = IF dcfg
                  THEN (IF bfdDir THEN {} ELSE {"db_path"}) \cup MissingShards
                  ELSE {}
    /\ UNCHANGED <<bfdDir, shards, dcfg>>
    /\ UNCHANGED <<jvars, rvars, mvars, evars>>

\* ------------------------------------------ DatabaseManager.cleanup_cache
EFiles == 1..NFiles

Sizes == 1..MaxFileSize

Mtimes == 1..MaxMtime

Budgets == 0..MaxBudget

NoFile == [size |-> 0, mtime |-> 0]

\* the sum of the st_size of the files under cache_dir
RECURSIVE SumSizes(_)
SumSizes(S) ==
    IF S = {} THEN 0
    ELSE LET f == CHOOSE x \in S : TRUE IN disk[f].size + SumSizes(S \ {f})

DiskTotal == SumSizes({f \in EFiles : disk[f] # NoFile})

\* x put after the entries of the sorted list s that are not newer than it
InsertByMtime(x, s) ==
    LET k == Cardinality({i \in 1..Len(s) : s[i][3] <= x[3]})
    IN  SubSeq(s, 1, k) \o <<x>> \o SubSeq(s, k + 1, Len(s))

\* files.sort that leaves the list in the order of the scan
Unsorted(s) == s

\* files.sort(key=lambda x: x[2]): ascending mtime, stable
RECURSIVE SortByMtime(_)
SortByMtime(s) ==
    IF s = <<>> THEN <<>>
    ELSE InsertByMtime(s[Len(s)], SortByMtime(SubSeq(s, 1, Len(s) - 1)))

\* a file is written under cache_dir before cleanup_cache is called
WriteCacheFile(f, sz, mt) ==
    /\ epc = "idle"
    /\ disk[f] = NoFile
    /\ disk' = [disk EXCEPT ![f] = [size |-> sz, mtime |-> mt]]
    /\ UNCHANGED <<epc, toScan, cur, files, total_size, max_size, removed>>
    /\ UNCHANGED <<jvars, rvars, mvars, dvars>>

\* cleanup_cache(cache_dir, M), lines 173-180: the directory exists, rglob
\* starts over the paths under it
CleanupStart(M) ==
    /\ epc = "idle"
    /\ epc' = "scan"
    /\ toScan' = {f \in EFiles : disk[f] # NoFile}
    /\ cur' = None
    /\ files' = <<>>
    /\ total_size' = 0
    /\ max_size' = M
    /\ removed' = <<>>
    /\ UNCHANGED disk
    /\ UNCHANGED <<jvars, rvars, mvars, dvars>>

\* lines 180-181: rglob yields its next path, path.is_file() (False for a
\* path that is gone); the paths are numbered in the order rglob yields them
ScanIsFile(f) ==
    /\ epc = "scan" /\ cur = None /\ f \in toScan
    /\ \A g \in toScan : f <= g
    /\ toScan' = toScan \ {f}
    /\ cur' = IF disk[f] # NoFile THEN f ELSE None
    /\ UNCHANGED <<disk, epc, files, total_size, max_size, removed>>
    /\ UNCHANGED <<jvars, rvars, mvars, dvars>>

\* lines 182-185: path.stat() for size and mtime; it raises FileNotFoundError
\* for a path that is gone, which cleanup_cache does not catch
ScanStat ==
    /\ epc = "scan" /\ cur # None
    /\ cur' = None
    /\ IF disk[cur] = NoFile
       THEN /\ epc' = "raised"
            /\ UNCHANGED <<files, total_size>>
       ELSE /\ files' = Append(files, <<cur, disk[cur].size, disk[cur].mtime>>)
            /\ total_size' = total_size + disk[cur].size
            /\ epc' = epc
    /\ UNCHANGED <<disk, toScan, max_size, removed>>
    /\ UNCHANGED <<jvars, rvars, mvars, dvars>>

\* lines 188-190: over the budget, the files are sorted by mtime
ScanEnd ==
    /\ epc = "scan" /\ cur = None /\ toScan = {}
    /\ IF total_size > max_size
       THEN /\ files' = SortByMtime(files)
            /\ epc' = "delete"
       ELSE /\ epc' = "returned"
            /\ UNCHANGED files
    /\ UNCHANGED <<disk, toScan, cur, total_size, max_size, removed>>
    /\ UNCHANGED <<jvars, rvars, mvars, dvars>>

\* lines 192-201: one turn of the loop over the sorted files
DeleteStep ==
    /\ epc = "delete"
    /\ IF files = <<>> \/ total_size <= max_size
       THEN /\ epc' = "returned"
            /\ UNCHANGED <<disk, files, total_size, removed>>
       ELSE /\ files' = Tail(files)
            /\ epc' = epc
            /\ IF disk[Head(files)[1]] # NoFile
               THEN /\ disk' = [disk EXCEPT ![Head(files)[1]] = NoFile]
                    /\ total_size' = total_size - Head(files)[2]
                    /\ removed' = Append(removed, Head(files))
               ELSE UNCHANGED <<disk, total_size, removed>>
    /\ UNCHANGED <<toScan, cur, max_size>>
    /\ UNCHANGED <<jvars, rvars, mvars, dvars>>

\* another process deletes a cache file while cleanup_cache runs
ExternalDelete(f) ==
    /\ epc \in {"scan", "delete"}
    /\ disk[f] # NoFile
    /\ disk' = [disk EXCEPT ![f] = NoFile]
    /\ UNCHANGED <<epc, toScan, cur, files, total_size, max_size, removed>>
    /\ UNCHANGED <<jvars, rvars, mvars, dvars>>

\* ---------------------------------------------------------- specification
InitJobs ==
    /\ tjobs = [j \in JobIds |-> None]
    /\ tobj = [r \in TReqs |-> NoJob]
    /\ tpc = [r \in TReqs |-> "idle"]
    /\ treq = [r \in TReqs |-> None]
    /\ tresp = [r \in TReqs |-> "none"]
    /\ texc = [r \in TReqs |-> FALSE]
    /\ tcbjob = [r \in TReqs |-> None]
    /\ current_job = None
    /\ tSeenCompleted = {}
    /\ ijobs = [j \in JobIds |-> None]
    /\ iobj = [r \in IReqs |-> NoJob]
    /\ ipc = [r \in IReqs |-> "idle"]
    /\ ireq = [r \in IReqs |-> None]
    /\ iresp = [r \in IReqs |-> "none"]
    /\ cancelResp = NoCancel
    /\ squery = NoQuery
    /\ statusResp = NoStatus

\* ResourceManager.__init__: the monitor is started, one lock per configured
\* device of a gpu configuration (a device id beyond device_count raises)
InitRM ==
    /\ cfgType \in {"cpu", "gpu"}
    /\ cuda \in BOOLEAN
    /\ device_ids \in (SUBSET DeviceIds) \ {{}}
    /\ locked = [d \in DeviceLocks |-> FALSE]
    /\ waiters = [d \in DeviceLocks |-> <<>>]
    /\ stats = NoStats
    /\ elapsed = FALSE
    /\ cpc = [c \in Callers |-> "idle"]
    /\ cdev = [c \in Callers |-> 0]
    /\ lastCall = NoCall
    /\ remaining = [c \in Callers |-> AcquireTimeout]
    /\ queued = {}

\* MSAService.__init__ with an empty cache index and no artifact yet
InitMSA ==
    /\ redisHost \in BOOLEAN
    /\ skip_bfd \in BOOLEAN
    /\ redisUp = TRUE
    /\ index = [s \in Seqs |-> None]
    /\ artifact = [p \in MsaJobIds |-> Absent]
    /\ mpc = [r \in MReqs |-> "idle"]
    /\ mjob = [r \in MReqs |-> None]
    /\ mseq = [r \in MReqs |-> None]
    /\ mcache = [r \in MReqs |-> FALSE]
    /\ mcached = [r \in MReqs |-> None]
    /\ mresp = [r \in MReqs |-> NoResponse]
    /\ mran = [r \in MReqs |-> FALSE]
    /\ mwarm = [r \in MReqs |-> FALSE]
    /\ mtext = [r \in MReqs |-> NoText]
    /\ mopt = [r \in MReqs |-> None]
    /\ outdirs = {}
    /\ artopt = [p \in MsaJobIds |-> None]

\* the installed dataset; no call of check_database_health in progress
InitData ==
    /\ bfdDir = TRUE
    /\ shards = ShardNames
    /\ dpc = "idle"
    /\ dcfg = FALSE
    /\ derrors = {}

\* _setup_dirs: the cache directory exists, nothing is in it yet
InitEvict ==
    /\ disk = [f \in EFiles |-> NoFile]
    /\ epc = "idle"
    /\ toScan = {}
    /\ cur = None
    /\ files = <<>>
    /\ total_size = 0
    /\ max_size = 0
    /\ removed = <<>>

InitStorage == InitMSA /\ InitData /\ InitEvict

\* ResourceMonitor.__init__: the event is clear, no thread, no snapshot
InitMonitor ==
    /\ stop_event = FALSE
    /\ monitor_thread = None
    /\ loops = [t \in Loops |-> NoLoop]
    /\ samples = <<>>
    /\ published = 0
    /\ stopc = NoStop
    /\ lastRead = NoRead

\* the monitor once ResourceManager.__init__ has called start() on it
InitStarted ==
    /\ stop_event = FALSE
    /\ monitor_thread = 1
    /\ loops = [t \in Loops |-> IF t = 1 THEN [NoLoop EXCEPT !.pc = "top"] ELSE NoLoop]
    /\ samples = <<>>
    /\ published = 0
    /\ stopc = NoStop
    /\ lastRead = NoRead

\* a deployment with REDIS_HOST set and SKIP_BFD_CHECK unset
Init == InitJobs /\ InitRM /\ InitStarted /\ InitStorage /\ redisHost /\ ~skip_bfd

\* a ResourceMonitor of its own, start() not called yet
InitBare == InitJobs /\ InitRM /\ InitMonitor /\ InitStorage /\ redisHost /\ ~skip_bfd

\* the services of a server started with the default AcceleratorConfig
\* (type "cpu") on a host without cuda
InitServices == Init /\ cfgType = "cpu" /\ ~cuda

vars == <<jvars, rvars, xvars>>

NextTraining ==
    \/ \E r \in TReqs, j \in JobIds : StartTrainingCheck(r, j)
    \/ \E r \in TReqs : StartTrainingInsert(r)
    \/ \E r \in TReqs : TrainSetCurrent(r)
    \/ \E r \in TReqs : TrainSetRunning(r)
    \/ \E r \in TReqs : TrainSetCompleted(r)
    \/ \E r \in TReqs : TrainSetCheckpoint(r)
    \/ \E r \in TReqs : TrainSetFailed(r)
    \/ \E r \in TReqs : TrainSetError(r)
    \/ \E r \in TReqs : TrainFinallyCheck(r)
    \/ \E r \in TReqs : TrainFinallyClear(r)
    \/ \E r \in TReqs : HandleTrainingComplete(r)
    \/ \E r \in TReqs : HandleTrainingError(r)
    \/ \E j \in JobIds : TCancelJob(j)

NextInference ==
    \/ \E r \in IReqs, j \in JobIds : PredictInsert(r, j)
    \/ \E r \in IReqs : PredictSetCompleted(r)
    \/ \E r \in IReqs : PredictSetResult(r)
    \/ \E r \in IReqs : PredictFail(r)
    \/ \E j \in JobIds : ICancelJob(j)

NextRM ==
    \/ \E s \in StatsValues : MonitorSample(s)
    \/ \E c \in Callers, d \in RequestIds : AcquireDevice(c, d)
    \/ \E c \in Callers : LockAcquire(c)
    \/ \E c \in Callers : LockResume(c)
    \/ \E c \in Callers : AcquireTimesOut(c)
    \/ \E c \in Callers : ReleaseDevice(c)
    \/ Tick

NextRequests ==
    \/ \E r \in MReqs, j \in MsaJobIds, s \in Seqs : MsaStart(r, j, s)
    \/ \E r \in MReqs : CacheLookup(r)
    \/ \E r \in MReqs : CacheCopy(r)
    \/ \E r \in MReqs : MsaGate(r)
    \/ \E r \in MReqs : ToolStart(r)
    \/ \E r \in MReqs, ok \in BOOLEAN : ToolFinish(r, ok)
    \/ \E r \in MReqs : CacheSet(r)

\* the requests with whatever text a client sends as the sequence
NextMSAInput ==
    \/ \E r \in MReqs, j \in MsaJobIds, q \in Texts, s \in Seqs :
            GenerateMSA(r, j, q, s, DefaultOptions)
    \/ \E r \in MReqs : CacheLookup(r)
    \/ \E r \in MReqs : CacheCopy(r)
    \/ \E r \in MReqs : MsaGate(r)
    \/ \E r \in MReqs : ToolStart(r)
    \/ \E r \in MReqs, ok \in BOOLEAN : ToolFinish(r, ok)
    \/ \E r \in MReqs : CacheSet(r)

\* the requests of plain sequences with whatever options a client sends
NextMSAOptions ==
    \/ \E r \in MReqs, j \in MsaJobIds, s \in Seqs, o \in Opts :
            GenerateMSA(r, j, PlainText, s, o)
    \/ \E r \in MReqs : CacheLookup(r)
    \/ \E r \in MReqs : CacheCopy(r)
    \/ \E r \in MReqs : MsaGate(r)
    \/ \E r \in MReqs : ToolStart(r)
    \/ \E r \in MReqs, ok \in BOOLEAN : ToolFinish(r, ok)
    \/ \E r \in MReqs : CacheSet(r)

NextMSA ==
    \/ NextRequests
    \/ RedisFlip
    \/ \E s \in Seqs : IndexExpire(s)
    \/ \E p \in MsaJobIds : ArtifactDeleted(p)

NextDataset ==
    \/ \E sh \in ShardNames : RemoveShard(sh)
    \/ \E sh \in ShardNames : RestoreShard(sh)
    \/ BfdDirFlip

NextData ==
    \/ NextDataset
    \/ CheckLoad
    \/ CheckReport

NextGate ==
    \/ NextRequests
    \/ NextDataset

NextEvict ==
    \/ \E f \in EFiles, sz \in Sizes, mt \in Mtimes : WriteCacheFile(f, sz, mt)
    \/ \E M \in Budgets : CleanupStart(M)
    \/ \E f \in EFiles : ScanIsFile(f)
    \/ ScanStat
    \/ ScanEnd
    \/ DeleteStep

NextEvictRace ==
    \/ NextEvict
    \/ \E f \in EFiles : ExternalDelete(f)

\* a server without accelerator, whatever REDIS_HOST and SKIP_BFD_CHECK are
InitMSAService == InitJobs /\ InitRM /\ InitStarted /\ InitStorage /\ cfgType = "cpu" /\ ~cuda

\* the same with REDIS_HOST set
InitGate == InitMSAService /\ redisHost = TRUE

\* the MSAService under concurrent requests, with its cache index and its
\* artifact files changing under it
SpecMSA == InitMSAService /\ [][NextMSA]_vars

\* the MSAService receiving valid and invalid sequences
SpecMSAInput == InitServices /\ [][NextMSAInput]_vars

\* the MSAService receiving requests that differ in their search options
SpecMSAOptions == InitServices /\ [][NextMSAOptions]_vars

\* every handler thread of the pool that can take its next step takes it in
\* the end; nothing makes hhblits exit
FairHandlers ==
    \A r \in MReqs :
        /\ WF_vars(CacheLookup(r))
        /\ WF_vars(CacheCopy(r))
        /\ WF_vars(MsaGate(r))
        /\ WF_vars(ToolStart(r))
        /\ WF_vars(CacheSet(r))

\* the MSAService whose handler threads keep running, whatever hhblits does
SpecMSALive == InitServices /\ [][NextRequests]_vars /\ FairHandlers

\* the MSAService with the index reachable and the artifacts left alone
SpecMSAIntact == InitServices /\ [][NextRequests]_vars

\* the MSAService while the dataset changes
SpecGate == InitGate /\ [][NextGate]_vars

\* check_database_health while the dataset changes
SpecData == InitServices /\ [][NextData]_vars

\* cleanup_cache alone on the cache directory
SpecEvict == InitServices /\ [][NextEvict]_vars

\* cleanup_cache while other processes delete cache files
SpecEvictRace == InitServices /\ [][NextEvictRace]_vars

\* the TrainingService under concurrent requests
SpecTraining == InitServices /\ [][NextTraining]_vars

\* the InferenceService under concurrent requests
SpecInference == InitServices /\ [][NextInference]_vars

\* the TrainingService with a client polling GetTrainingStatus
NextTrainingStatus ==
    \/ NextTraining
    \/ \E j \in JobIds : GetTrainingStatus(j)
    \/ GetTrainingStatusRespond

\* the InferenceService with a client polling GetJobStatus
NextInferenceStatus ==
    \/ NextInference
    \/ \E j \in JobIds : GetJobStatus(j)
    \/ GetJobStatusRespond

SpecTrainingStatus == InitServices /\ [][NextTrainingStatus]_vars

SpecInferenceStatus == InitServices /\ [][NextInferenceStatus]_vars

\* the ResourceMonitor: calls of start(), stop() and stats, and its loops
NextMonitor ==
    \/ Start
    \/ StopSet
    \/ StopJoin
    \/ StopReturn
    \/ ReadStats
    \/ Tick
    \/ \E t \in Loops : LoopTest(t)
    \/ \E t \in Loops, mem \in Percents, os \in DeviceOutcomes : LoopSample(t, mem, os)
    \/ \E t \in Loops : LoopSampleError(t)
    \/ \E t \in Loops : LoopPublish(t)
    \/ \E t \in Loops : LoopWake(t)

\* a ResourceMonitor and the threads that call it
SpecMonitor == InitBare /\ [][NextMonitor]_vars

\* the ResourceManager with its callers on one event loop
SpecRM == Init /\ [][NextRM]_vars

\* the callers and the device locks while the monitor publishes no sample
\* (the snapshot only decides whether a call is admitted to the lock)
NextWait ==
    \/ \E c \in Callers, d \in RequestIds : AcquireDevice(c, d)
    \/ \E c \in Callers : LockAcquire(c)
    \/ \E c \in Callers : LockResume(c)
    \/ \E c \in Callers : AcquireTimesOut(c)
    \/ \E c \in Callers : ReleaseDevice(c)
    \/ Tick

\* NextWait under the event loop's scheduling: a task that is ready runs, a
\* timeout that is due fires, and time keeps passing (the steps of the other
\* callers take no second away from a waiting caller for ever)
SpecWait ==
    /\ Init /\ [][NextWait]_vars
    /\ SF_vars(Tick)
    /\ \A c \in Callers :
          /\ WF_vars(LockAcquire(c))
          /\ WF_vars(LockResume(c))
          /\ WF_vars(AcquireTimesOut(c))

\* ================================================================= claims

\* the requests that have stored a job record under id j
TCreators(j) == {r \in TReqs : treq[r] = j /\ tresp[r] = "started"}

ICreators(j) == {r \in IReqs : ireq[r] = j /\ ipc[r] # "idle"}

\* C1: of the submissions that carry the same job id, at most one creates the
\* job record (the others are rejected with ALREADY_EXISTS), in every interleaving.
C1_OneCreatorPerId ==
    \A j \in JobIds :
        /\ Cardinality(TCreators(j)) <= 1
        /\ Cardinality(ICreators(j)) <= 1

\* C2: a submission whose job id is already in the job store is answered
\* ALREADY_EXISTS and leaves the record stored under that id unchanged.
C2_DuplicateRejected ==
    [][ /\ \A r \in IReqs :
             (ipc[r] = "idle" /\ ipc'[r] # "idle" /\ ijobs[ireq'[r]] # None)
                 => /\ iresp'[r] = "ALREADY_EXISTS"
                    /\ Stored(ijobs', iobj', ireq'[r]) = IStored(ireq'[r])
        /\ \A r \in TReqs :
             (tpc[r] = "idle" /\ tpc'[r] # "idle" /\ tjobs[treq'[r]] # None)
                 => /\ tresp'[r] = "ALREADY_EXISTS"
                    /\ Stored(tjobs', tobj', treq'[r]) = TStored(treq'[r])
      ]_vars

\* C3: once the job stored under an id is completed, failed or cancelled, no
\* step changes its status, result reference or error message.
C3_TerminalImmutable ==
    [][ \A j \in JobIds :
          /\ TStored(j).status \in Terminal => Stored(tjobs', tobj', j) = TStored(j)
          /\ IStored(j).status \in Terminal => Stored(ijobs', iobj', j) = IStored(j)
      ]_vars

\* the edges of the job status graph
AllowedEdges ==
    { <<"pending", "running">>, <<"running", "completed">>, <<"running", "failed">>,
      <<"pending", "cancelled">>, <<"running", "cancelled">> }

\* C4: every change of the status of a job record follows an allowed edge.
C4_OnlyAllowedEdges ==
    [][ /\ \A r \in IReqs :
             (iobj[r].status # "absent" /\ iobj'[r].status # iobj[r].status)
                 => <<iobj[r].status, iobj'[r].status>> \in AllowedEdges
        /\ \A r \in TReqs :
             (tobj[r].status # "absent" /\ tobj'[r].status # tobj[r].status)
                 => <<tobj[r].status, tobj'[r].status>> \in AllowedEdges
      ]_vars

\* C5: the job stored under an id never shows running after it has shown
\* completed (a PredictionJob never takes the status running at all).
C5_NeverRunningAfterCompleted ==
    /\ \A j \in tSeenCompleted : TStored(j).status # "running"
    /\ \A j \in JobIds : IStored(j).status # "running"

\* the callers that hold device d: acquire_device returned True and
\* release_device has not been called yet
Holders(d) == {c \in Callers : cpc[c] = "holding" /\ cdev[c] = d}

\* C6: no device has two holders at once.
C6_AtMostOneHolder ==
    \A d \in RequestIds : Cardinality(Holders(d)) <= 1

\* a caller obtained the device after waiting for it while another caller,
\* queued behind it, still waits for the same device
C6_Witness ==
    \E c1, c2 \in Callers :
        /\ cpc[c1] = "holding" /\ c1 \in queued
        /\ cpc[c2] = "waiting" /\ cdev[c2] = cdev[c1]

\* the step is a call of acquire_device(d) by c: it is admitted to the lock
\* or answered at once
CallStep(c, d) ==
    /\ cpc[c] = "idle"
    /\ \/ cpc'[c] = "acquiring" /\ cdev'[c] = d
       \/ lastCall'.caller = c /\ lastCall'.device = d

\* the outcomes of acquire_device that raise ResourceExhaustedError
ResourceExhausted == {"not_available", "overloaded", "memory_exhausted", "timeout"}

\* the call of c fails at once: ResourceExhaustedError, no lock attempted or queued for
RejectedAtOnce(c) ==
    /\ cpc'[c] = "idle"
    /\ lastCall'.caller = c
    /\ lastCall'.outcome \in ResourceExhausted
    /\ locked' = locked
    /\ waiters' = waiters

\* the snapshot reports a compute utilization above 90 for device d
ReportsUtilization(d) ==
    /\ stats # NoStats
    /\ stats[1].gpu_utilization # <<>>
    /\ stats[1].gpu_utilization[d + 1] > 90

\* the snapshot reports a memory utilization above 90 for device d
ReportsDeviceMemory(d) ==
    /\ stats # NoStats
    /\ stats[1].gpu_memory_utilization # <<>>
    /\ stats[1].gpu_memory_utilization[d + 1] > 90

\* C7: a call of acquire_device(d) made while the latest snapshot reports a
\* utilization above 90% for d fails at once with ResourceExhausted and leaves
\* the device locks alone, held or not.
C7_OverloadedRejected ==
    [][ \A c \in Callers, d \in DeviceIds :
          (CallStep(c, d) /\ ReportsUtilization(d)) => RejectedAtOnce(c)
      ]_vars

\* a call was refused as overloaded while another caller holds the device
C7_Witness ==
    \E h \in Callers :
        /\ lastCall.outcome = "overloaded"
        /\ cpc[h] = "holding" /\ cdev[h] = lastCall.device
        /\ ReportsUtilization(lastCall.device)

\* C8: a call of acquire_device(d) made while the latest snapshot reports a
\* memory usage above 90% for device d fails at once with ResourceExhausted.
C8_DeviceMemoryRejected ==
    [][ \A c \in Callers, d \in DeviceIds :
          (CallStep(c, d) /\ ReportsDeviceMemory(d)) => RejectedAtOnce(c)
      ]_vars

\* C9: a call of acquire_device made while the monitor has published no sample
\* and no time has passed since construction (so before any grace period is
\* over) is rejected.
C9_UnknownSnapshotRejected ==
    [][ \A c \in Callers, d \in RequestIds :
          (CallStep(c, d) /\ stats = NoStats /\ ~elapsed) => RejectedAtOnce(c)
      ]_vars

\* C10: a caller waiting for a held device (a) leaves the wait only by taking
\* the lock, as its only holder, or by ResourceExhausted(timeout) once its 5
\* seconds are over; (b) is handed the device when the holder releases it
\* while the caller is first in line with time left; (c) never waits forever.
C10_WaitBoundedByTimeout ==
    /\ [][ \A c \in Callers :
             /\ (cpc[c] \in {"waiting", "woken"} /\ cpc'[c] \notin {"waiting", "woken"})
                  => \/ /\ cpc'[c] = "holding"
                        /\ lastCall' = Answer(c, cdev[c], "ok")
                        /\ locked'[cdev[c]]
                        /\ \A o \in Callers \ {c} : ~(cpc'[o] = "holding" /\ cdev'[o] = cdev[c])
                     \/ /\ cpc'[c] = "idle"
                        /\ lastCall' = Answer(c, cdev[c], "timeout")
                        /\ remaining[c] = 0
             /\ (cpc[c] = "waiting" /\ remaining[c] > 0
                   /\ Head(waiters[cdev[c]]) = c
                   /\ \E h \in Callers : cpc[h] = "holding" /\ cdev[h] = cdev[c]
                                           /\ cpc'[h] = "idle")
                  => cpc'[c] = "woken"
             /\ (cpc[c] = "woken" /\ remaining[c] > 0) => cpc'[c] \in {"woken", "holding"}
         ]_vars
    /\ \A c \in Callers : (cpc[c] = "waiting") ~> (cpc[c] \in {"holding", "idle"})

\* a caller has timed out on the device that another caller holds after
\* having waited for it
C10_Witness ==
    \E c2 \in Callers :
        /\ lastCall.outcome = "timeout"
        /\ cpc[c2] = "holding" /\ c2 \in queued
        /\ cdev[c2] = lastCall.device

\* C11: a call of acquire_device with a device id that has no lock in
\* _device_locks is answered at once "Device not available"
\* (ResourceExhaustedError), whatever the snapshot says, and changes no lock.
C11_UnknownDeviceRejected ==
    [][ \A c \in Callers, d \in RequestIds :
          (CallStep(c, d) /\ d \notin DOMAIN locked)
              => /\ RejectedAtOnce(c)
                 /\ lastCall'.outcome = "not_available"
      ]_vars

\* a call on an unknown device was refused while the snapshot reports
\* exhausted memory and another caller holds a device
C11_Witness ==
    /\ lastCall.outcome = "not_available"
    /\ lastCall.device \notin DOMAIN locked
    /\ MemoryExhausted
    /\ \E h \in Callers : cpc[h] = "holding"

\* C12: once the handler or worker that ran a job has returned, the job it
\* stored has the status completed, failed or cancelled.
C12_TerminalAfterReturn ==
    /\ \A r \in IReqs : ipc[r] = "returned" => iobj[r].status \in Terminal
    /\ \A r \in TReqs : tpc[r] = "done" => tobj[r].status \in Terminal

\* C13: a lookup that reads a mapping for its sequence from the index ends
\* as a hit, the request completing with a copy of the cached artifact, if
\* the file at the path exists, and as a miss (on to hhblits) if it does not;
\* it never ends as an error.
C13_CacheRoundTrip ==
    [][ \A r \in MReqs :
          /\ (mpc[r] = "cache" /\ mpc'[r] # "cache" /\ mcache[r] /\ redisUp
                /\ index[mseq[r]] # None)
               => mpc'[r] = IF Exists(index[mseq[r]]) THEN "copy" ELSE "gate"
          /\ (mpc[r] = "copy" /\ mpc'[r] # "copy")
               => /\ mresp'[r] = Completed
                  /\ artifact'[OutputPath(mjob[r])] = artifact[mcached[r]]
      ]_vars

\* C14: no request is answered failed because the cache index failed,
\* whether at the lookup or at the store after hhblits has succeeded.
C14_IndexFailureAbsorbed ==
    \A r \in MReqs : mresp[r] # Failed("ConnectionError")

\* C15: the index holds no mapping to an artifact that is still being
\* produced or whose production failed.
C15_MappingOnlyToFinishedArtifact ==
    \A s \in Seqs : index[s] # None => artifact[index[s]].state # "partial"

\* C16: the list check_database_health returns names exactly the required
\* files that are missing when it returns.
C16_HealthReportsMissingShards ==
    [][ (dpc = "loaded" /\ dpc' = "idle")
          => derrors' \cap ShardNames = MissingShards
      ]_vars

\* C17: a request that reaches the gate (a cache miss) while a required file
\* is missing, SKIP_BFD_CHECK unset, is answered failed with the database
\* error and does not go on to hhblits.
C17_DatasetGate ==
    [][ \A r \in MReqs :
          (mpc[r] = "gate" /\ mpc'[r] # "gate" /\ ~skip_bfd /\ MissingShards # {})
              => /\ mpc'[r] = "done"
                 /\ mresp'[r] = Failed("ValueError")
      ]_vars

\* the sizes of the files the call has unlinked
RECURSIVE SeqSizes(_)
SeqSizes(s) == IF s = <<>> THEN 0 ELSE s[1][2] + SeqSizes(Tail(s))

\* C18: when cleanup_cache has returned from a directory whose total size S
\* exceeded the budget M, the remaining total is at most M, no removed file
\* is newer than a remaining one, and without the last removal the total
\* would still exceed M (the removed files are the k oldest, k smallest).
C18_EvictOldestToBudget ==
    (epc = "returned" /\ DiskTotal + SeqSizes(removed) > max_size)
        => /\ DiskTotal <= max_size
           /\ removed # <<>>
           /\ \A i \in 1..Len(removed) : \A f \in EFiles :
                 disk[f] # NoFile => removed[i][3] <= disk[f].mtime
           /\ DiskTotal + removed[Len(removed)][2] > max_size

\* the call returned having removed two files and kept a newer one
C18_Witness ==
    /\ epc = "returned"
    /\ Len(removed) = 2
    /\ \E f \in EFiles : disk[f] # NoFile /\ disk[f].mtime > removed[2][3]
    /\ removed[1][2] # removed[2][2]

\* C19: a call of cleanup_cache returns normally whatever files other
\* processes delete while it runs.
C19_CleanupToleratesDeletion ==
    epc # "raised"

\* C20: in a series of submissions of one sequence, a submission that comes
\* in when the index holds the sequence completes without spawning hhblits.
C20_WarmSubmissionHitsCache ==
    \A r \in MReqs :
        (mpc[r] = "done" /\ mwarm[r] /\ \A q \in MReqs : mpc[q] # "idle" => mseq[q] = mseq[r])
            => (mresp[r] = Completed /\ ~mran[r])

\* result_path of the response of a completed request (msa.py:173, 179)
ResultPath(r) == OutputPath(mjob[r])

\* C21: a request that completes from the cache (without hhblits) answers the
\* result reference of the job that computed the artifact, the path the
\* index gave it, whatever its own job id is.
C21_CacheHitSameResultRef ==
    \A r \in MReqs :
        (mresp[r] = Completed /\ ~mran[r]) => ResultPath(r) = mcached[r]

\* C22: a CancelJob request for a job that is completed, failed or cancelled
\* is answered FAILED_PRECONDITION and leaves the job's status as it was.
C22_CancelTerminalRefused ==
    [][ \A j \in JobIds :
          /\ (cancelResp'.svc = "inference" /\ cancelResp'.id = j
                  /\ IStored(j).status \in Terminal)
                => /\ cancelResp'.code = "FAILED_PRECONDITION"
                   /\ Stored(ijobs', iobj', j).status = IStored(j).status
          /\ (cancelResp'.svc = "training" /\ cancelResp'.id = j
                  /\ TStored(j).status \in Terminal)
                => /\ cancelResp'.code = "FAILED_PRECONDITION"
                   /\ Stored(tjobs', tobj', j).status = TStored(j).status
      ]_vars

\* the PredictionJob of request r shows cancelled, a cancel request having
\* been accepted for it, while PredictStructure has not returned
ICancelledInFlight(r) ==
    /\ iobj[r].status = "cancelled"
    /\ ipc[r] \in {"predicting", "i114"}

\* the TrainingJob of request r shows cancelled, a cancel request having been
\* accepted for it, while _train has not left its try block
TCancelledInFlight(r) ==
    /\ tobj[r].status = "cancelled"
    /\ tpc[r] \in {"t297", "fit", "t329"}

\* C23: once a cancel request has been accepted for a job whose work is in
\* flight, no step makes the job completed or sets its result reference.
C23_CancelledWorkDiscarded ==
    [][ /\ \A r \in IReqs :
             ICancelledInFlight(r)
                 => (iobj'[r].status # "completed" /\ iobj'[r].result = iobj[r].result)
        /\ \A r \in TReqs :
             TCancelledInFlight(r)
                 => (tobj'[r].status # "completed" /\ tobj'[r].result = tobj[r].result)
      ]_vars

\* C24: a status response that shows completed carries the job's result
\* reference, and one that shows failed carries its error message.
C24_StatusReadsWholeRecord ==
    statusResp.code = "OK" =>
        /\ statusResp.status = "completed" => statusResp.result # "None"
        /\ statusResp.status = "failed" => statusResp.error # "None"

\* no PredictStructure request has carried job id j
INeverSubmitted(j) == \A r \in IReqs : ipc[r] = "idle" \/ ireq[r] # j

\* no StartTraining request has carried job id j
TNeverSubmitted(j) == \A r \in TReqs : tpc[r] = "idle" \/ treq[r] # j

\* the step is the lookup of a status request of service svc for job id j
StatusLookupStep(svc, j) ==
    /\ squery = NoQuery
    /\ \/ squery' # NoQuery /\ squery'.svc = svc /\ squery'.id = j
       \/ statusResp' # statusResp /\ statusResp'.svc = svc /\ statusResp'.id = j

\* C25: a status request for a job id that was never submitted is answered
\* NOT_FOUND at the lookup, and no job store or job record changes.
C25_UnknownStatusNotFound ==
    [][ \A j \in JobIds :
          /\ (StatusLookupStep("inference", j) /\ INeverSubmitted(j))
                => /\ statusResp' = NotFound("inference", j)
                   /\ squery' = NoQuery
                   /\ ivars' = ivars /\ tvars' = tvars
          /\ (StatusLookupStep("training", j) /\ TNeverSubmitted(j))
                => /\ statusResp' = NotFound("training", j)
                   /\ squery' = NoQuery
                   /\ ivars' = ivars /\ tvars' = tvars
      ]_vars

\* a status request for an id never submitted was answered NOT_FOUND while
\* the job of another id is stored and completed
C25_Witness ==
    \E j, k \in JobIds :
        /\ statusResp = NotFound("inference", j)
        /\ INeverSubmitted(j)
        /\ IStored(k).status = "completed"

\* C30: a CancelJob request for a job that is pending or running is accepted
\* and leaves the job cancelled.
C30_CancelActiveAccepted ==
    [][ \A j \in JobIds :
          /\ (cancelResp'.svc = "training" /\ cancelResp'.id = j
                  /\ TStored(j).status \in {"pending", "running"})
                => /\ cancelResp'.code = "cancelled"
                   /\ Stored(tjobs', tobj', j).status = "cancelled"
          /\ (cancelResp'.svc = "inference" /\ cancelResp'.id = j
                  /\ IStored(j).status \in {"pending", "running"})
                => /\ cancelResp'.code = "cancelled"
                   /\ Stored(ijobs', iobj', j).status = "cancelled"
      ]_vars

\* C26: whatever number of start() calls the monitor has had, at most one
\* sampling loop is running.
C26_StartIdempotent ==
    Cardinality(Running) <= 1

\* C27: no call of stop() raises, in whatever order start() and stop() are
\* called; when a call of stop() returns every loop started so far has
\* exited, and from then on the snapshot is not changed.
C27_StopSafeAndFinal ==
    /\ [](stopc.pc # "raised")
    /\ [][ (stopc.pc = "joining" /\ stopc'.pc = "returned") => Running' = {} ]_vars
    /\ [][ stopc.pc = "returned" => stats' = stats ]_vars

\* C28: the rest of an iteration in which a sampling error occurred leaves
\* the snapshot as it was and does not end the loop.
C28_SamplingErrorKeepsSnapshot ==
    [][ \A t \in Loops :
          ((loops[t].err \/ loops'[t].err) /\ loops'[t] # loops[t])
              => (stats' = stats /\ loops'[t].pc # "exited")
      ]_vars

\* C29: a read of monitor.stats returns None or all the fields of one sample
\* that was taken, and successive reads never return an older sample than
\* the read before.
C29_SnapshotReadAtomicMonotone ==
    /\ [](\/ lastRead = NoRead
          \/ /\ lastRead.seq \in 1..Len(samples)
             /\ lastRead.stats = <<samples[lastRead.seq]>>)
    /\ [][ lastRead'.seq >= lastRead.seq ]_vars

\* the requests whose handler is inside _run_prediction, running
\* model.predict on the device the models were moved to (inference.py:75-76, 213)
Predicting == {r \in IReqs : ipc[r] = "predicting"}

\* C31: at no instant do two jobs run the Predictor on the device, and a job
\* runs it only while the device is held through acquire_device.
C31_DeviceOwnedWhilePredicting ==
    /\ Cardinality(Predicting) <= 1
    /\ Predicting # {} => \E c \in Callers : cpc[c] = "holding"

\* a sequence that is empty, longer than 2000, or holds a character that is
\* not an amino-acid letter
InvalidText(q) ==
    \/ q.len = 0
    \/ q.len > 2000
    \/ \E c \in q.chars : c \notin {"A", "a"}

NeverComputed(s) ==
    \A r \in MReqs : mseq[r] = s => ~(mran[r] /\ mpc[r] = "done" /\ mresp[r] = Completed)

\* some request for sequence s ended because the tool exited non-zero
ToolFailedFor(s) ==
    \E r \in MReqs : mseq[r] = s /\ mpc[r] = "done" /\ mresp[r] = Failed("RuntimeError")

\* C33: when the search tool exits non-zero the request is reported failed
\* with the tool's error and the step writes no cache mapping; a submission
\* of the same sequence that looks the cache up after the failure, no other
\* request having computed that sequence, misses the cache and goes on to the
\* tool
C33_ToolFailureNotCached ==
    [][/\ \A r \in MReqs :
            (mpc[r] = "tool" /\ mpc'[r] = "done") =>
                /\ mresp'[r] = Failed("RuntimeError")
                /\ index' = index
       /\ \A r \in MReqs :
            (mpc[r] = "cache" /\ mpc'[r] # "cache"
                /\ ToolFailedFor(mseq[r]) /\ NeverComputed(mseq[r])) =>
                /\ mpc'[r] = "gate"
                /\ index[mseq[r]] = None]_vars

\* a request whose tool failed, and a later one for the same sequence that
\* missed the cache and has spawned the tool again
C33_Witness ==
    \E r \in MReqs, r2 \in MReqs :
        /\ r # r2
        /\ mresp[r] = Failed("RuntimeError")
        /\ mseq[r2] = mseq[r]
        /\ ~mwarm[r2]
        /\ mpc[r2] = "tool"
        /\ index[mseq[r]] = None

\* C34: every MSA request that was received eventually returns, completed or
\* failed, even if hhblits never exits
C34_RequestEventuallyReturns ==
    \A r \in MReqs : (mpc[r] # "idle") ~> (mpc[r] = "done")

\* the step ends a call of acquire_device by c with ResourceExhaustedError
FailedCall(c) ==
    /\ lastCall'.caller = c
    /\ lastCall'.outcome \in ResourceExhausted

\* C35: a call of acquire_device that fails (unknown device, overloaded,
\* memory exhausted, lock timeout) leaves every device lock as it was: no lock
\* changes hands, the failed caller holds nothing and waits for nothing, and a
\* lock that is free stays acquirable (nobody waits for it, or the first in
\* line has been woken)
C35_FailedAcquireLeavesLocks ==
    [][ \A c \in Callers :
          FailedCall(c) =>
              /\ locked' = locked
              /\ cpc'[c] = "idle"
              /\ cdev'[c] = 0
              /\ \A d \in DOMAIN waiters : waiters'[d] = Without(waiters[d], c)
              /\ \A o \in Callers \ {c} : cpc[o] = "holding" => cpc'[o] = "holding"
              /\ \A d \in DOMAIN locked :
                    ~locked'[d] => \/ waiters'[d] = <<>>
                                   \/ cpc'[Head(waiters'[d])] = "woken"
      ]_vars

\* a caller that had been woken for a released device timed out, and the
\* device is free
C35_Witness ==
    /\ lastCall.outcome = "timeout"
    /\ lastCall.device \in DOMAIN locked
    /\ ~locked[lastCall.device]
    /\ lastCall.caller \in queued \/ \E c \in Callers : c \in queued

\* C36: a call of acquire_device(d) for a device id d of the accelerator
\* configuration, made while nobody holds or waits for d and the snapshot
\* reports neither d overloaded nor memory exhausted, is admitted to the lock
\* of d and not refused, for the cpu accelerator type as well as for gpu
C36_ConfiguredDeviceAcquirable ==
    [][ \A c \in Callers, d \in DeviceIds :
          (/\ CallStep(c, d)
           /\ d \in device_ids
           /\ \A o \in Callers : ~(cpc[o] # "idle" /\ cdev[o] = d)
           /\ ~ReportsUtilization(d)
           /\ ~ReportsDeviceMemory(d)
           /\ ~MemoryExhausted)
              => /\ d \in DOMAIN locked
                 /\ cpc'[c] = "acquiring"
                 /\ lastCall'.outcome \notin ResourceExhausted
      ]_vars

\* the requests whose _train worker has been submitted and has not left its
\* finally block
ActiveWorkers ==
    {r \in TReqs : tpc[r] \in {"queued", "t297", "fit", "t329", "t334", "fin", "fin_clear"}}

\* C37: every TrainingJob whose status is running is the one current_job
\* names, and current_job is None whenever no training worker is active
C37_CurrentJobIsRunningJob ==
    /\ \A r \in TReqs : tobj[r].status = "running" => current_job = treq[r]
    /\ ActiveWorkers = {} => current_job = None

\* C38: a request answered from the cache is handed an artifact that was
\* computed for its own sequence and with its own search options
C38_CacheHitSameSequenceAndOptions ==
    [][ \A r \in MReqs :
          (mpc[r] = "copy" /\ mresp'[r] = Completed) =>
              /\ artifact[mcached[r]].seq = mseq[r]
              /\ artopt[mcached[r]] = mopt[r]
      ]_vars

\* C39: a finished alignment that the index maps sequence s to is the
\* alignment computed for s, also when a job id is used again with another
\* sequence
C39_CacheEntryHoldsItsSequence ==
    \A s \in Seqs :
        (index[s] # None /\ artifact[index[s]].state = "complete")
            => artifact[index[s]].seq = s

====
